---- MODULE Spec2Model ----
(***************************************************************************)
(* Gesture-driven mode state machine of the particle Christmas tree.       *)
(*                                                                         *)
(* The repository holds four gesture front ends:                           *)
(*   "current" : script.js  ChristmasApp.handleGestures, lines 408-469     *)
(*   "first"   : script.js  ChristmasApp.handleGestures, lines 233-287     *)
(*   "earlier" : script.js  ChristmasApp.handleGestures, lines 2496-2546   *)
(*   "main"    : main.js    detectGesture / predictWebcam                  *)
(* One of them runs in a page; Init picks which.                           *)
(*                                                                         *)
(* Units.  Landmark coordinates are integers in hundredths of the          *)
(* normalised camera frame (x = 50 is 0.50).  Distances are in the same    *)
(* unit, so pinchDist < 0.05 reads "< 5" and avgTipDist > 0.45 reads       *)
(* "sum of the four tip distances > 180".  targetMix is in hundredths.     *)
(* handRotation is in units of 1e-9 rad so that the 0.1 smoothing step is  *)
(* exact for the number of frames a run processes.                         *)
(***************************************************************************)
EXTENDS Integers, Sequences, FiniteSets, TLC

\* ---------------------------------------------------------------- bounds
\* Number of video frames the camera delivers in a run.
MaxTime == 3
\* Decoration meshes created by the ParticleManager constructor (stands
\* for CONFIG.particleCount).
NParticles == 2
\* Largest size of the item collection (photo uploads stop there).
MaxItems == 4

\* Display frames rendered in a run with detection.
MaxFrames == 2

\* Display frames rendered in a run of the easing alone.
MaxEaseFrames == 120

\* Video frames in a run of the idle decay alone.
MaxIdleTime == 60

\* Last video timestamp in a run of the display loop with unbounded frames.
MaxScaleTime == 1

\* ------------------------------------------------------- numbers with NaN
\* IEEE not-a-number: what arithmetic on a NaN or undefined coordinate
\* yields.  Every comparison with it is false.
NaN == 0 - 1000000

IsNaN(v) == v = NaN

Sub(a, b) == IF IsNaN(a) \/ IsNaN(b) THEN NaN ELSE a - b

Add(a, b) == IF IsNaN(a) \/ IsNaN(b) THEN NaN ELSE a + b

Mul(a, b) == IF IsNaN(a) \/ IsNaN(b) THEN NaN ELSE a * b

Lt(a, b) == ~IsNaN(a) /\ ~IsNaN(b) /\ a < b

Gt(a, b) == ~IsNaN(a) /\ ~IsNaN(b) /\ a > b

\* Exact square root; the landmark sets below only produce perfect squares.
Sqrt(s) == CHOOSE r \in 0..100 : r * r = s

\* Math.hypot(dx, dy)
Hypot(dx, dy) == IF IsNaN(dx) \/ IsNaN(dy) THEN NaN ELSE Sqrt(dx * dx + dy * dy)

\* ------------------------------------------------------------- landmarks
P(x, y, z) == [x |-> x, y |-> y, z |-> z]

\* A hand is the sequence of its landmarks; JavaScript index i is h[i + 1].
Defined(h, i) == i + 1 <= Len(h)

Lm(h, i) == h[i + 1]

Wrist == P(50, 90, 0)

Knuckle == P(50, 70, 0)

\* Finger tips, all straight above the wrist: curled (15 from the wrist),
\* half extended (40), fully extended (60), and curled in x,y but pointing
\* at the camera (15 in x,y, more than 40 in 3D).
TipCurled == P(50, 75, 0)

TipMid == P(50, 50, 0)

TipFar == P(50, 30, 0)

TipDeep == P(50, 75, 40)

\* A complete hand of 21 landmarks.  Only landmarks 0, 4, 5, 8, 9, 12, 13,
\* 16, 17 and 20 are read by the code; the others repeat the wrist.
MkHand(w, thumb, k, tips) ==
    [i \in 1..21 |->
        CASE i = 1 -> w
          [] i = 5 -> thumb
          [] i \in {6, 10, 14, 18} -> k
          [] i = 9 -> tips[1]
          [] i = 13 -> tips[2]
          [] i = 17 -> tips[3]
          [] i = 21 -> tips[4]
          [] OTHER -> w]

\* The first n fingers (index, middle, ring, pinky) at tip position t, the
\* others curled.
TipsOf(n, t) == [f \in 1..4 |-> IF f <= n THEN t ELSE TipCurled]

\* Thumb tips relative to the index tip: touching (3 away), exactly on the
\* threshold (3,4 -> 5 away), and far (30 away).
ThumbTouch == <<3, 0>>

ThumbEdge == <<3, 4>>

ThumbAway == <<30, 0>>

\* <<number of raised fingers, their tip position, thumb offset>>
HandShapes ==
    { <<0, TipFar, ThumbAway>>, <<0, TipFar, ThumbTouch>>,
      <<1, TipMid, ThumbAway>>,
      <<2, TipMid, ThumbAway>>, <<2, TipMid, ThumbTouch>>,
      <<3, TipFar, ThumbAway>>,
      <<4, TipMid, ThumbAway>>,
      <<4, TipDeep, ThumbAway>>,
      <<4, TipFar, ThumbAway>>, <<4, TipFar, ThumbEdge>>, <<4, TipFar, ThumbTouch>> }

CompleteHands ==
    { MkHand(Wrist,
             P(TipsOf(s[1], s[2])[1].x + s[3][1], TipsOf(s[1], s[2])[1].y + s[3][2], 0),
             Knuckle, TipsOf(s[1], s[2])) : s \in HandShapes }

NaNHand == [i \in 1..21 |-> P(NaN, NaN, NaN)]

\* Hands with missing landmarks: none at all, 5 and 20 of them.
ShortHands == { SubSeq(MkHand(Wrist, P(80, 50, 0), Knuckle, TipsOf(4, TipFar)), 1, n) :
                  n \in {0, 5, 20} }

Hands == CompleteHands \cup {NaNHand} \cup ShortHands

\* results.landmarks of one detection: no hand, or the first hand.
NoHand == <<>>

Results == {NoHand} \cup { <<h>> : h \in Hands }

HandOf(s) ==
    MkHand(Wrist,
           P(TipsOf(s[1], s[2])[1].x + s[3][1], TipsOf(s[1], s[2])[1].y + s[3][2], 0),
           Knuckle, TipsOf(s[1], s[2]))

\* One hand of each kind: a fist, an undecided hand, an open hand, a pinch.
FewResults ==
    {NoHand} \cup { <<HandOf(s)>> : s \in { <<0, TipFar, ThumbAway>>, <<2, TipMid, ThumbAway>>,
                                           <<4, TipFar, ThumbAway>>, <<4, TipFar, ThumbTouch>> } }

\* ------------------------------------------------------------------ state
VARIABLES
    variant,        \* which gesture front end the page runs
    mode,           \* STATE.mode                      (script.js)
    targetPhoto,    \* STATE.targetPhoto: 0 is null, else an index of items
    handDetected,   \* STATE.handDetected
    handRotation,   \* STATE.handRotation  [x, y]
    gesture,        \* STATE.gesture / state.gesture
    targetMix,      \* state.targetMix                 (main.js)
    lastVideoTime,  \* lastVideoTime of the detection loop
    videoTime,      \* video.currentTime
    loop,           \* detection loop: "notStarted", "scheduled" or "dead"
    items,          \* ParticleManager.items, the userData.type of each mesh
    \* -- history of the detection loop (written by no program statement)
    processed,      \* number of video frames the loop has processed
    lastResults,    \* results.landmarks of the last processed frame
    lastLabel,      \* what that frame was classified as
    before1,        \* [mode, mix] before the last processed frame
    before2,        \* [mode, mix] before the frame before that
    first,          \* [res, label] of the first processed frame
    oonn,           \* modes after the frames of a run OPEN, OPEN, NONE, NONE
    \* -- model loading and the display loop
    scope,          \* which part of the page a specification exercises
    handLandmarker, \* the landmark model: "pending", "created" or "failed"
    notices,        \* notices shown to the user (alert)
    uMix,           \* particleMaterial.uniforms.uMix.value   (main.js)
    uTime,          \* particleMaterial.uniforms.uTime.value  (main.js)
    meshes,         \* per item of items: userData.treePos, userData.scatterPos,
                    \* position and scale.x (script.js); per particle the
                    \* attributes position, targetPosition and size (main.js)
    frames,         \* display frames rendered (written by no program statement)
    \* -- the photo wall
    handState,      \* handState [visible, pinching, over]; over is the photo
                    \* under handState.vector, 0 when none
    grabbedPhoto    \* grabbedPhoto: 0 is null, else a photo

STATEvars == <<mode, targetPhoto, handDetected, handRotation, gesture, targetMix>>

histvars == <<processed, lastResults, lastLabel, before1, before2, first, oonn>>

vars == <<variant, mode, targetPhoto, handDetected, handRotation, gesture, targetMix,
          lastVideoTime, videoTime, loop, items,
          processed, lastResults, lastLabel, before1, before2, first, oonn,
          scope, handLandmarker, notices, uMix, uTime, meshes, frames,
          handState, grabbedPhoto>>

loadvars == <<scope, handLandmarker, notices>>

displayvars == <<uMix, uTime, meshes, frames>>

wallvars == <<handState, grabbedPhoto>>

ScriptVariants == {"current", "first", "earlier"}

Variants == ScriptVariants \cup {"main"}

\* The photo wall of script.js (695-1228) is a page of its own.
WallVariants == {"wall"}

\* ------------------------------------------------- script.js: the gestures
\* pinchDist = Math.hypot(thumb.x - index.x, thumb.y - index.y)
pinchDist(lm) ==
    Hypot(Sub(Lm(lm, 4).x, Lm(lm, 8).x), Sub(Lm(lm, 4).y, Lm(lm, 8).y))

TipToWrist(lm, t) ==
    Hypot(Sub(Lm(lm, t).x, Lm(lm, 0).x), Sub(Lm(lm, t).y, Lm(lm, 0).y))

\* The sum the code divides by 4 to get avgTipDist; the thresholds below
\* are multiplied by 4 instead.
tipDistSum(lm) ==
    Add(Add(TipToWrist(lm, 8), TipToWrist(lm, 12)),
        Add(TipToWrist(lm, 16), TipToWrist(lm, 20)))

\* The if / else-if chain of each handleGestures, as the label it stores in
\* STATE.gesture.
\* Mutant of GestureCurrent: the open hand is tested before the pinch.
GestureCurrent_OpenFirst(lm) ==
    IF Gt(tipDistSum(lm), 4 * 45) THEN "OPEN"
    ELSE IF Lt(pinchDist(lm), 5) THEN "PINCH"
    ELSE IF Lt(tipDistSum(lm), 4 * 25) THEN "FIST"
    ELSE "NONE"

\* Mutant of GestureCurrent: hysteresis, a hand already in SCATTER counts as
\* open from the lower threshold 0.35 on.
GestureCurrent_Hysteresis(lm) ==
    IF Lt(pinchDist(lm), 5) THEN "PINCH"
    ELSE IF Gt(tipDistSum(lm), 4 * (IF mode = "SCATTER" THEN 35 ELSE 45)) THEN "OPEN"
    ELSE IF Lt(tipDistSum(lm), 4 * 25) THEN "FIST"
    ELSE "NONE"

GestureCurrent(lm) ==
    IF Lt(pinchDist(lm), 5) THEN "PINCH"
    ELSE IF Gt(tipDistSum(lm), 4 * 45) THEN "OPEN"
    ELSE IF Lt(tipDistSum(lm), 4 * 25) THEN "FIST"
    ELSE "NONE"

GestureEarlier(lm) ==
    IF Lt(pinchDist(lm), 5) THEN "PINCH"
    ELSE IF Lt(tipDistSum(lm), 4 * 20) THEN "FIST"
    ELSE IF Gt(tipDistSum(lm), 4 * 35) THEN "OPEN"
    ELSE "NONE"

GestureOf(v, lm) == IF v = "earlier" THEN GestureEarlier(lm) ELSE GestureCurrent(lm)

\* The mode each branch leaves, from the mode before it.
\* Mutant of ModeCurrent: an ambiguous hand keeps the mode (no auto-recover).
ModeCurrent_NoRecover(g, m) ==
    CASE g = "PINCH" -> "FOCUS"
      [] g = "OPEN" -> "SCATTER"
      [] g = "FIST" -> "TREE"
      [] OTHER -> m

\* Mutant of ModeCurrent: an open hand leaves FOCUS untouched.
ModeCurrent_OpenKeepsFocus(g, m) ==
    CASE g = "PINCH" -> "FOCUS"
      [] g = "OPEN" -> IF m = "FOCUS" THEN m ELSE "SCATTER"
      [] g = "FIST" -> "TREE"
      [] OTHER -> IF m \in {"SCATTER", "FOCUS"} THEN "TREE" ELSE m

\* Mutant of ModeCurrent: a fist lets go of SCATTER only, not of FOCUS.
ModeCurrent_FistKeepsFocus(g, m) ==
    CASE g = "PINCH" -> "FOCUS"
      [] g = "OPEN" -> "SCATTER"
      [] g = "FIST" -> IF m = "FOCUS" THEN m ELSE "TREE"
      [] OTHER -> IF m \in {"SCATTER", "FOCUS"} THEN "TREE" ELSE m

ModeCurrent(g, m) ==
    CASE g = "PINCH" -> "FOCUS"
      [] g = "OPEN" -> "SCATTER"
      [] g = "FIST" -> "TREE"
      [] OTHER -> IF m \in {"SCATTER", "FOCUS"} THEN "TREE" ELSE m

ModeFirst(g, m) ==
    CASE g = "PINCH" -> "FOCUS"
      [] g = "OPEN" -> "SCATTER"
      [] g = "FIST" -> "TREE"
      [] OTHER -> IF m = "SCATTER" THEN "TREE" ELSE m

ModeEarlier(g, m) ==
    CASE g = "PINCH" -> "FOCUS"
      [] g = "OPEN" -> "SCATTER"
      [] g = "FIST" -> "TREE"
      [] OTHER -> m

ModeOf(v, g, m) ==
    CASE v = "current" -> ModeCurrent(g, m)
      [] v = "first" -> ModeFirst(g, m)
      [] OTHER -> ModeEarlier(g, m)

\* The mode the no-hand branch leaves.
ModeNoHand(v, m) == IF v = "earlier" THEN m ELSE "TREE"

\* STATE.handRotation.x += (targetRotX - STATE.handRotation.x) * 0.1
\* (the division is exact for the first six steps from 0 in the 1e-9 unit)
Smooth(old, target) ==
    IF IsNaN(old) \/ IsNaN(target) THEN NaN ELSE old + ((target - old) \div 10)

\* targetRotX = (palm.y - 0.5) * 1.5, targetRotY = (palm.x - 0.5) * 2.5
targetRotX(palm) == Mul(Sub(palm.y, 50), 15000000)

targetRotY(palm) == Mul(Sub(palm.x, 50), 25000000)

\* Mutant of PhotoIndices: the filter lets every item through.
PhotoIndices_AnyItem(its) == { i \in 1..Len(its) : its[i] \in {"PHOTO", "PARTICLE"} }

PhotoIndices(its) == { i \in 1..Len(its) : its[i] = "PHOTO" }

\* What Math.random can select in triggerFocus (0 when there is no photo).
Draws(its) == IF PhotoIndices(its) = {} THEN {0} ELSE PhotoIndices(its)

\* ParticleManager.triggerFocus: the new STATE.targetPhoto
triggerFocus(its, old, r) == IF PhotoIndices(its) # {} THEN r ELSE old

\* handleGestures(results) of variant v on STATE S; r is the random draw.
\* threw: a TypeError left the handler before its end, state holds what it
\* had written until then.
handleGestures(v, S, res, its, r) ==
    IF Len(res) > 0
    THEN LET lm == res[1]
             S1 == [S EXCEPT !.handDetected = TRUE]
         IN  IF ~Defined(lm, 9)
             THEN [state |-> S1, threw |-> TRUE, label |-> "THROW"]
             ELSE LET palm == Lm(lm, 9)
                      S2 == [S1 EXCEPT !.handRotation =
                                [x |-> Smooth(S.handRotation.x, targetRotX(palm)),
                                 y |-> Smooth(S.handRotation.y, targetRotY(palm))]]
                  IN  IF ~Defined(lm, 20)
                      THEN [state |-> S2, threw |-> TRUE, label |-> "THROW"]
                      ELSE LET g == GestureOf(v, lm)
                           IN  [state |-> [S2 EXCEPT
                                    !.gesture = g,
                                    !.mode = ModeOf(v, g, S.mode),
                                    !.targetPhoto = IF g = "PINCH"
                                                    THEN triggerFocus(its, S.targetPhoto, r)
                                                    ELSE S.targetPhoto],
                                threw |-> FALSE, label |-> g]
    ELSE [state |-> [S EXCEPT !.handDetected = FALSE, !.mode = ModeNoHand(v, S.mode)],
          threw |-> FALSE, label |-> "NOHAND"]

\* ---------------------------------------------------- main.js: the gestures
\* Squared 3D distance; dist() is its square root.
dist2(p1, p2) ==
    LET dx == Sub(p1.x, p2.x)
        dy == Sub(p1.y, p2.y)
        dz == Sub(p1.z, p2.z)
    IN  IF IsNaN(dx) \/ IsNaN(dy) \/ IsNaN(dz) THEN NaN ELSE dx * dx + dy * dy + dz * dz

fingerIndices == { [tip |-> 8, mcp |-> 5], [tip |-> 12, mcp |-> 9],
                   [tip |-> 16, mcp |-> 13], [tip |-> 20, mcp |-> 17] }

\* dTip > dMcp * 1.5, compared on the squares: 4 dTip^2 > 9 dMcp^2
Extended(lm, f) ==
    Gt(Mul(4, dist2(Lm(lm, f.tip), Lm(lm, 0))), Mul(9, dist2(Lm(lm, f.mcp), Lm(lm, 0))))

extendedCount(lm) == Cardinality({ f \in fingerIndices : Extended(lm, f) })

\* Mutant of detectGesture: only four extended fingers make an open hand.
detectGesture_FourOnly(lm) ==
    IF Len(lm) = 0 THEN "none"
    ELSE IF \E f \in fingerIndices : ~Defined(lm, f.tip) \/ ~Defined(lm, f.mcp) THEN "THROW"
    ELSE IF extendedCount(lm) >= 4 THEN "open"
    ELSE IF extendedCount(lm) <= 1 THEN "closed"
    ELSE "none"

\* detectGesture(landmarks); "THROW" when a landmark it reads is undefined.
detectGesture(lm) ==
    IF Len(lm) = 0 THEN "none"
    ELSE IF \E f \in fingerIndices : ~Defined(lm, f.tip) \/ ~Defined(lm, f.mcp) THEN "THROW"
    ELSE IF extendedCount(lm) >= 3 THEN "open"
    ELSE IF extendedCount(lm) <= 1 THEN "closed"
    ELSE "none"

\* Mutant of predictResults: without a hand the target blend snaps to 0.
predictResults_Snap(S, res) ==
    IF Len(res) > 0
    THEN LET g == detectGesture(res[1])
         IN  IF g = "THROW"
             THEN [state |-> S, threw |-> TRUE, label |-> "THROW"]
             ELSE [state |-> [S EXCEPT
                                !.targetMix = CASE g = "open" -> 100
                                                [] g = "closed" -> 0
                                                [] OTHER -> S.targetMix,
                                !.gesture = g],
                   threw |-> FALSE, label |-> g]
    ELSE [state |-> [S EXCEPT !.targetMix = 0, !.gesture = "none"],
          threw |-> FALSE, label |-> "NOHAND"]

\* Mutant of predictResults: an undecided hand lets the target blend decay
\* like no hand.
predictResults_NoneDecays(S, res) ==
    IF Len(res) > 0
    THEN LET g == detectGesture(res[1])
         IN  IF g = "THROW"
             THEN [state |-> S, threw |-> TRUE, label |-> "THROW"]
             ELSE [state |-> [S EXCEPT
                                !.targetMix = CASE g = "open" -> 100
                                                [] g = "closed" -> 0
                                                [] OTHER -> IF S.targetMix - 2 > 0
                                                            THEN S.targetMix - 2 ELSE 0,
                                !.gesture = g],
                   threw |-> FALSE, label |-> g]
    ELSE [state |-> [S EXCEPT
                       !.targetMix = IF S.targetMix - 2 > 0 THEN S.targetMix - 2 ELSE 0,
                       !.gesture = "none"],
          threw |-> FALSE, label |-> "NOHAND"]

\* The body of predictWebcam's if, on state S.
predictResults(S, res) ==
    IF Len(res) > 0
    THEN LET g == detectGesture(res[1])
         IN  IF g = "THROW"
             THEN [state |-> S, threw |-> TRUE, label |-> "THROW"]
             ELSE [state |-> [S EXCEPT
                                !.targetMix = CASE g = "open" -> 100
                                                [] g = "closed" -> 0
                                                [] OTHER -> S.targetMix,
                                !.gesture = g],
                   threw |-> FALSE, label |-> g]
    ELSE [state |-> [S EXCEPT
                       !.targetMix = IF S.targetMix - 2 > 0 THEN S.targetMix - 2 ELSE 0,
                       !.gesture = "none"],
          threw |-> FALSE, label |-> "NOHAND"]

\* ------------------------------------------------ script.js: the particles
\* One scene unit in the fixed point of positions and scales.
Unit == 64

V(x, y, z) == [x |-> x, y |-> y, z |-> z]

\* new THREE.Vector3(0, 2, 35), where the focused photo is presented.
FocusSlot == V(0, 2 * Unit, 35 * Unit)

\* calculateTreePos for the i-th item: a point of the cone.
TreeSpot(i) == V(2 * i * Unit, (3 * i - 12) * Unit, i * Unit)

\* calculateScatterPos for the i-th item: a point of the shell.
ScatterSpot(i) == V((0 - 10 - i) * Unit, 4 * i * Unit, (12 + i) * Unit)

\* The mesh the constructor and addPhoto build: position.copy(treePos), scale 1.
NewMesh(tp, sp) == [treePos |-> tp, scatterPos |-> sp, position |-> tp, scale |-> Unit]

Abs(n) == IF n < 0 THEN 0 - n ELSE n

\* a + (b - a) * alpha, alpha given in halves.
LerpN(a, b, f2) == a + ((b - a) * f2) \div 2

\* Vector3.lerp(v, alpha), alpha given in halves.
Vlerp(p, q, f2) == V(LerpN(p.x, q.x, f2), LerpN(p.y, q.y, f2), LerpN(p.z, q.z, f2))

\* clock.getDelta() in quarters of a second; lerpFactor = 2.0 * delta is then
\* dq halves.  The code puts no cap on delta.
Deltas == {1, 2, 3}

\* The deltas of at most half a second, for which lerpFactor is at most 1.
SmallDeltas == {1, 2}

\* Mutant of update: position is the treePos vector itself (no copy), so
\* the lerp moves the rest position along.
update_SharedVector(ms, dq, m, tp) ==
    [i \in 1..Len(ms) |->
        LET mesh == ms[i]
            focused == m = "FOCUS" /\ i = tp
            targetPos == CASE m = "TREE" -> mesh.treePos
                           [] m = "SCATTER" -> mesh.scatterPos
                           [] OTHER -> IF focused THEN FocusSlot ELSE mesh.scatterPos
            targetScale == IF focused THEN 4 * Unit ELSE Unit
        IN  [mesh EXCEPT
               !.position = Vlerp(mesh.position, targetPos, dq),
               !.treePos = Vlerp(mesh.position, targetPos, dq),
               !.scale = IF Abs(mesh.scale - targetScale) * 100 > Unit
                         THEN LerpN(mesh.scale, targetScale, dq)
                         ELSE mesh.scale]]

\* Mutant of update: in FOCUS mode every item is sent to the presentation slot.
update_FocusAll(ms, dq, m, tp) ==
    [i \in 1..Len(ms) |->
        LET mesh == ms[i]
            focused == m = "FOCUS"
            targetPos == CASE m = "TREE" -> mesh.treePos
                           [] m = "SCATTER" -> mesh.scatterPos
                           [] OTHER -> IF focused THEN FocusSlot ELSE mesh.scatterPos
            targetScale == IF focused THEN 4 * Unit ELSE Unit
        IN  [mesh EXCEPT
               !.position = Vlerp(mesh.position, targetPos, dq),
               !.scale = IF Abs(mesh.scale - targetScale) * 100 > Unit
                         THEN LerpN(mesh.scale, targetScale, dq)
                         ELSE mesh.scale]]

\* Mutant of update: only the focus target's scale is eased, so an item that
\* is the focus target no more keeps the scale it had.
update_ScaleKept(ms, dq, m, tp) ==
    [i \in 1..Len(ms) |->
        LET mesh == ms[i]
            focused == m = "FOCUS" /\ i = tp
            targetPos == CASE m = "TREE" -> mesh.treePos
                           [] m = "SCATTER" -> mesh.scatterPos
                           [] OTHER -> IF focused THEN FocusSlot ELSE mesh.scatterPos
            targetScale == IF focused THEN 4 * Unit ELSE Unit
        IN  [mesh EXCEPT
               !.position = Vlerp(mesh.position, targetPos, dq),
               !.scale = IF focused /\ Abs(mesh.scale - targetScale) * 100 > Unit
                         THEN LerpN(mesh.scale, targetScale, dq)
                         ELSE mesh.scale]]

\* ParticleManager.update(delta, time, mode) on the meshes ms; tp is
\* STATE.targetPhoto.  (mesh.rotation, which nothing reads, is left out.)
update(ms, dq, m, tp) ==
    [i \in 1..Len(ms) |->
        LET mesh == ms[i]
            focused == m = "FOCUS" /\ i = tp
            targetPos == CASE m = "TREE" -> mesh.treePos
                           [] m = "SCATTER" -> mesh.scatterPos
                           [] OTHER -> IF focused THEN FocusSlot ELSE mesh.scatterPos
            targetScale == IF focused THEN 4 * Unit ELSE Unit
        IN  [mesh EXCEPT
               !.position = Vlerp(mesh.position, targetPos, dq),
               !.scale = IF Abs(mesh.scale - targetScale) * 100 > Unit
                         THEN LerpN(mesh.scale, targetScale, dq)
                         ELSE mesh.scale]]

\* ---------------------------------------------------- main.js: the blend
\* uMix of one hundredth of targetMix: uMix is kept in 1e-9.
MixUnit == 10000000

\* Mutant of Ease: the step is 1.05 of the gap.
Ease_Overshoot(u, t) == u + ((t * MixUnit - u) \div 20) * 21

\* Mutant of Ease: the step is 0.04 of the gap.
Ease_Slow(u, t) == u + (t * MixUnit - u) \div 25

\* uMix += (targetMix - uMix) * 0.05
Ease(u, t) == u + (t * MixUnit - u) \div 20

\* treePositions and scatterPositions of the i-th particle: a point of the
\* cone and a point of the disk.
treePositions(i) == V(3 * i * Unit, (2 * i - 5) * Unit, (i + 4) * Unit)

scatterPositions(i) == V((16 + i) * Unit, i * Unit, (0 - 20) * Unit)

\* The attributes of particleGeometry, per particle: position (treePos),
\* targetPosition (scatterPos) and size (scale).
particleGeometry == [i \in 1..NParticles |-> NewMesh(treePositions(i), scatterPositions(i))]

\* What snoise may return for the three axes: values in [-1, 1].
Noises == { V(0, 0, 0), V(Unit, 0 - Unit, Unit), V(0 - Unit, Unit, 0) }

\* sin and cos of k thousandths of a radian, in 1e-5, by their series.
SinQ(k) == 100 * k - (k * k * k) \div 60000

CosQ(k) == 100000 - (k * k) \div 20 + (k * k * k * k) \div 240000000

\* mix(position, targetPosition, t), t = u in 1e-9 taken to thousandths.
Mix(p, q, u) ==
    LET t == u \div 1000000
    IN  V(p.x + ((q.x - p.x) * t) \div 1000, p.y + ((q.y - p.y) * t) \div 1000,
          p.z + ((q.z - p.z) * t) \div 1000)

\* The spiral rotation: by rot = uTime * 0.1, which is k thousandths of a
\* radian when uTime is k hundredths.
Spiral(pos, k) ==
    V((pos.x * CosQ(k) - pos.z * SinQ(k)) \div 100000, pos.y,
      (pos.x * SinQ(k) + pos.z * CosQ(k)) \div 100000)

\* Mutant of vertexShader: the turbulence has a floor of 1.
vertexShader_Floating(p, q, u, k, n) ==
    LET t == u \div 1000000
        m == Mix(p, q, u)
        pos == V(m.x + (n.x * (2 * t + 1000)) \div 1000, m.y + (n.y * (2 * t + 1000)) \div 1000,
                 m.z + (n.z * (2 * t + 1000)) \div 1000)
    IN  IF 2 * u < 100 * MixUnit THEN Spiral(pos, k) ELSE pos

\* The vertex shader's pos for a particle at p with target q, uMix u, uTime k
\* and noise n: the mix, plus noise * (t * 2.0), spun while t < 0.5.
vertexShader(p, q, u, k, n) ==
    LET t == u \div 1000000
        m == Mix(p, q, u)
        pos == V(m.x + (n.x * (2 * t)) \div 1000, m.y + (n.y * (2 * t)) \div 1000,
                 m.z + (n.z * (2 * t)) \div 1000)
    IN  IF 2 * u < 100 * MixUnit THEN Spiral(pos, k) ELSE pos

\* ------------------------------------------------ script.js: the photo wall
\* setupPhotos: photoCount photos hung on the tree.
photoCount == 6

\* photo.position.set(...) of the i-th photo.
PhotoSpot(i) == V((7 - i) * Unit, (3 + i) * Unit, i * Unit)

photos == [i \in 1..photoCount |-> NewMesh(PhotoSpot(i), PhotoSpot(i))]

\* Where a grabbed photo is held: 15 units from the camera under
\* handState.vector.
HoldSpot == V(0, 5 * Unit, 15 * Unit)

\* raycaster.intersectObjects(photos) for handState.vector: the photo under
\* it, if any.
intersectObjects(hs) == IF hs.over > 0 THEN <<hs.over>> ELSE <<>>

\* Mutant of updateInteractions: a pinch grabs whatever the ray intersects,
\* also while another photo is held.
updateInteractions_Regrab(hs, g, ms) ==
    IF ~hs.visible
    THEN [grabbedPhoto |-> g, photos |-> ms]
    ELSE LET intersects == intersectObjects(hs)
             g1 == IF hs.pinching
                   THEN IF Len(intersects) > 0 THEN intersects[1] ELSE g
                   ELSE 0
         IN  [grabbedPhoto |-> g1,
              photos |-> IF g1 # 0
                         THEN [ms EXCEPT ![g1].position = HoldSpot,
                                         ![g1].scale = (3 * Unit) \div 2]
                         ELSE [i \in 1..Len(ms) |->
                                 IF ms[i].scale > Unit THEN [ms[i] EXCEPT !.scale = Unit]
                                 ELSE ms[i]]]

\* updateInteractions(camera, scene) on handState hs, grabbedPhoto g and the
\* photos ms.
updateInteractions(hs, g, ms) ==
    IF ~hs.visible
    THEN [grabbedPhoto |-> g, photos |-> ms]
    ELSE LET intersects == intersectObjects(hs)
             g1 == IF hs.pinching
                   THEN IF g = 0 /\ Len(intersects) > 0 THEN intersects[1] ELSE g
                   ELSE 0
         IN  [grabbedPhoto |-> g1,
              photos |-> IF g1 # 0
                         THEN [ms EXCEPT ![g1].position = HoldSpot,
                                         ![g1].scale = (3 * Unit) \div 2]
                         ELSE [i \in 1..Len(ms) |->
                                 IF ms[i].scale > Unit THEN [ms[i] EXCEPT !.scale = Unit]
                                 ELSE ms[i]]]

\* The photo wall's animate up to updateInteractions: while nothing is
\* grabbed every photo is put back on its orbit (x and z; the angle of the
\* orbit, which nothing reads, is left out).
orbit(g, ms) ==
    IF g = 0
    THEN [i \in 1..Len(ms) |->
            [ms[i] EXCEPT !.position = V(ms[i].treePos.x, ms[i].position.y, ms[i].treePos.z)]]
    ELSE ms

\* ---------------------------------------------------------------- actions
CurSTATE ==
    [mode |-> mode, targetPhoto |-> targetPhoto, handDetected |-> handDetected,
     handRotation |-> handRotation, gesture |-> gesture, targetMix |-> targetMix]

SetSTATE(S) ==
    /\ mode' = S.mode
    /\ targetPhoto' = S.targetPhoto
    /\ handDetected' = S.handDetected
    /\ handRotation' = S.handRotation
    /\ gesture' = S.gesture
    /\ targetMix' = S.targetMix

Pattern == <<"OPEN", "OPEN", "NONE", "NONE">>

\* The label of a frame in the vocabulary of script.js.
Canon(label) ==
    CASE label = "open" -> "OPEN"
      [] label = "closed" -> "FIST"
      [] label = "none" -> "NONE"
      [] OTHER -> label

\* History of a processed frame: res was classified label and left mode m.
\* It is kept only where the detection loop is examined without the display
\* loop.
Record(res, label, m) ==
    IF scope \in {"detection", "idle"}
    THEN /\ processed' = processed + 1
         /\ lastResults' = res
         /\ lastLabel' = label
         /\ before1' = [mode |-> mode, mix |-> targetMix]
         /\ before2' = before1
         /\ first' = IF processed = 0 THEN [res |-> res, label |-> label] ELSE first
         /\ oonn' = IF Len(oonn) < 4 /\ Canon(label) = Pattern[Len(oonn) + 1]
                       /\ (Len(oonn) > 0 \/ mode = "TREE")
                    THEN Append(oonn, m)
                    ELSE IF Canon(label) = "OPEN" /\ mode = "TREE" THEN <<m>> ELSE <<>>
    ELSE UNCHANGED histvars

\* What detectForVideo may return: every hand where the detection loop is
\* examined on its own, one hand of each kind beside the display loop, no
\* hand at all where the camera sees nobody.
Detections ==
    CASE scope = "detection" -> Results
      [] scope = "idle" -> {NoHand}
      [] OTHER -> FewResults

\* Mutant of Tick: the frame is detected and handled whatever its timestamp.
Tick_NoSkip ==
    /\ lastVideoTime' = videoTime
    /\ \E res \in Detections, r \in Draws(items) :
         LET out == handleGestures(variant, CurSTATE, res, items, r)
         IN  /\ SetSTATE(out.state)
             /\ loop' = IF out.threw THEN "dead" ELSE "scheduled"
             /\ Record(res, out.label, out.state.mode)
    /\ UNCHANGED <<variant, videoTime, items, loadvars, displayvars, wallvars>>

\* One tick of the detection loop of script.js (renderLoop): a new video
\* timestamp is recorded and the frame detected and handled; the next tick is
\* requested only if nothing threw.
Tick ==
    \/ /\ videoTime # lastVideoTime
       /\ lastVideoTime' = videoTime
       /\ \E res \in Detections, r \in Draws(items) :
            LET out == handleGestures(variant, CurSTATE, res, items, r)
            IN  /\ SetSTATE(out.state)
                /\ loop' = IF out.threw THEN "dead" ELSE "scheduled"
                /\ Record(res, out.label, out.state.mode)
       /\ UNCHANGED <<variant, videoTime, items, loadvars, displayvars, wallvars>>
    \/ /\ videoTime = lastVideoTime
       /\ loop' = "scheduled"
       /\ UNCHANGED <<variant, STATEvars, lastVideoTime, videoTime, items, histvars,
                      loadvars, displayvars, wallvars>>

\* One call of predictWebcam of main.js.  The loop is started by enableCam,
\* which runs only once handLandmarker has been created, so the
\* "handLandmarker &&" half of its guard is true in every call.
TickMain ==
    \/ /\ videoTime # lastVideoTime
       /\ lastVideoTime' = videoTime
       /\ \E res \in Detections :
            LET out == predictResults(CurSTATE, res)
            IN  /\ SetSTATE(out.state)
                /\ loop' = IF out.threw THEN "dead" ELSE "scheduled"
                /\ Record(res, out.label, out.state.mode)
       /\ UNCHANGED <<variant, videoTime, items, loadvars, displayvars, wallvars>>
    \/ /\ videoTime = lastVideoTime
       /\ loop' = "scheduled"
       /\ UNCHANGED <<variant, STATEvars, lastVideoTime, videoTime, items, histvars,
                      loadvars, displayvars, wallvars>>

\* main.js createHandLandmarker: the model is created and enableCam called,
\* or the creation throws and the catch block alerts the user.
createHandLandmarker ==
    /\ variant = "main"
    /\ handLandmarker = "pending"
    /\ \E ok \in BOOLEAN :
         /\ handLandmarker' = IF ok THEN "created" ELSE "failed"
         /\ notices' = IF ok THEN notices ELSE notices + 1
    /\ UNCHANGED <<variant, STATEvars, lastVideoTime, videoTime, loop, items, histvars,
                   scope, displayvars, wallvars>>

\* script.js initMediaPipe: the model is created, or one of the two awaits
\* before the try block rejects and the async method ends there.
initMediaPipe ==
    /\ variant \in ScriptVariants
    /\ handLandmarker = "pending"
    /\ \E ok \in BOOLEAN : handLandmarker' = IF ok THEN "created" ELSE "failed"
    /\ UNCHANGED <<variant, STATEvars, lastVideoTime, videoTime, loop, items, histvars,
                   scope, notices, displayvars, wallvars>>

\* The video's 'loadeddata' event: the first tick of the detection loop.
loadeddata ==
    /\ handLandmarker = "created"
    /\ loop = "notStarted"
    /\ IF variant = "main" THEN TickMain ELSE Tick

\* script.js renderLoop, called back by requestAnimationFrame.
renderLoop ==
    /\ variant \in ScriptVariants
    /\ loop = "scheduled"
    /\ Tick

\* main.js predictWebcam, called back by requestAnimationFrame.
predictWebcam ==
    /\ variant = "main"
    /\ loop = "scheduled"
    /\ TickMain

\* The camera delivers the next video frame: video.currentTime advances.
\* Where the idle decay is examined alone every delivered frame is processed
\* before the next one arrives (a dropped frame only postpones the decay).
VideoFrame ==
    /\ videoTime < (CASE scope = "idle" -> MaxIdleTime
                       [] scope = "scale" -> MaxScaleTime
                       [] OTHER -> MaxTime)
    /\ scope = "idle" => videoTime = lastVideoTime
    /\ videoTime' = videoTime + 1
    /\ UNCHANGED <<variant, STATEvars, lastVideoTime, loop, items, histvars,
                   loadvars, displayvars, wallvars>>

\* Mutant of addPhoto: the oldest item makes room for the new photo.
addPhoto_Evict ==
    /\ variant \in ScriptVariants
    /\ Len(items) < MaxItems
    /\ items' = Append(Tail(items), "PHOTO")
    /\ meshes' = Append(Tail(meshes), NewMesh(TreeSpot(Len(items) + 1), ScatterSpot(Len(items) + 1)))
    /\ UNCHANGED <<variant, STATEvars, lastVideoTime, videoTime, loop, histvars,
                   loadvars, uMix, uTime, frames, wallvars>>

\* ParticleManager.addPhoto, from the file input's change handler.
addPhoto ==
    /\ variant \in ScriptVariants
    /\ Len(items) < MaxItems
    /\ items' = Append(items, "PHOTO")
    /\ meshes' = Append(meshes, NewMesh(TreeSpot(Len(items) + 1), ScatterSpot(Len(items) + 1)))
    /\ UNCHANGED <<variant, STATEvars, lastVideoTime, videoTime, loop, histvars,
                   loadvars, uMix, uTime, frames, wallvars>>

\* script.js animate, one display frame: the particles are updated with the
\* mode STATE holds.  (mainGroup.rotation, which nothing reads, is left out.)
\* Where the settling of the scale is examined the frames are not counted (the
\* meshes come to rest) and last at most half a second.
animate ==
    /\ variant \in ScriptVariants
    /\ scope # "scale" => frames < MaxFrames
    /\ \E dq \in (IF scope = "scale" THEN SmallDeltas ELSE Deltas) :
         meshes' = update(meshes, dq, mode, targetPhoto)
    /\ frames' = IF scope = "scale" THEN frames ELSE frames + 1
    /\ UNCHANGED <<variant, STATEvars, lastVideoTime, videoTime, loop, items, histvars,
                   loadvars, uMix, uTime, wallvars>>

\* Mutant of animateMain: the display frame also decays the target blend.
animateMain_Decay ==
    /\ variant = "main"
    /\ frames < (IF scope = "ease" THEN MaxEaseFrames ELSE MaxFrames)
    /\ uTime' = uTime + 1
    /\ uMix' = Ease(uMix, targetMix)
    /\ targetMix' = IF targetMix - 2 > 0 THEN targetMix - 2 ELSE 0
    /\ frames' = frames + 1
    /\ UNCHANGED <<variant, mode, targetPhoto, handDetected, handRotation, gesture,
                   lastVideoTime, videoTime, loop, items, histvars,
                   loadvars, meshes, wallvars>>

\* main.js animate, one display frame.  uTime counts in hundredths.
animateMain ==
    /\ variant = "main"
    /\ frames < (IF scope = "ease" THEN MaxEaseFrames ELSE MaxFrames)
    /\ uTime' = uTime + 1
    /\ uMix' = Ease(uMix, targetMix)
    /\ frames' = frames + 1
    /\ UNCHANGED <<variant, STATEvars, lastVideoTime, videoTime, loop, items, histvars,
                   loadvars, meshes, wallvars>>

\* The photo wall's onResults(results): the hand's index tip points at photo
\* o (0: at none).
onResults ==
    /\ variant \in WallVariants
    /\ \E res \in FewResults, o \in 0..photoCount :
         handState' = IF Len(res) > 0
                      THEN [visible |-> TRUE,
                            pinching |-> Lt(pinchDist(res[1]), 5),
                            over |-> o]
                      ELSE [handState EXCEPT !.visible = FALSE]
    /\ UNCHANGED <<variant, STATEvars, lastVideoTime, videoTime, loop, items, histvars,
                   loadvars, displayvars, grabbedPhoto>>

\* mousemove / touchmove: updateHandStateFromInput, only if no hand is visible.
mousemove ==
    /\ variant \in WallVariants
    /\ \E o \in 0..photoCount :
         handState' = IF ~handState.visible THEN [handState EXCEPT !.over = o] ELSE handState
    /\ UNCHANGED <<variant, STATEvars, lastVideoTime, videoTime, loop, items, histvars,
                   loadvars, displayvars, grabbedPhoto>>

\* mousedown / touchstart
mousedown ==
    /\ variant \in WallVariants
    /\ handState' = IF ~handState.visible THEN [handState EXCEPT !.pinching = TRUE]
                    ELSE handState
    /\ UNCHANGED <<variant, STATEvars, lastVideoTime, videoTime, loop, items, histvars,
                   loadvars, displayvars, grabbedPhoto>>

\* mouseup / touchend
mouseup ==
    /\ variant \in WallVariants
    /\ handState' = IF ~handState.visible THEN [handState EXCEPT !.pinching = FALSE]
                    ELSE handState
    /\ UNCHANGED <<variant, STATEvars, lastVideoTime, videoTime, loop, items, histvars,
                   loadvars, displayvars, grabbedPhoto>>

\* The photo wall's animate, one display frame.
animateWall ==
    /\ variant \in WallVariants
    /\ frames < MaxFrames
    /\ LET out == updateInteractions(handState, grabbedPhoto, orbit(grabbedPhoto, meshes))
       IN  /\ grabbedPhoto' = out.grabbedPhoto
           /\ meshes' = out.photos
    /\ frames' = frames + 1
    /\ UNCHANGED <<variant, STATEvars, lastVideoTime, videoTime, loop, items, histvars,
                   loadvars, uMix, uTime, handState>>

\* State after construction: STATE / state literals, the uniforms, the
\* ParticleManager constructor (count decoration meshes, then the default
\* photo), handState and grabbedPhoto.
InitOf(sc, vs) ==
    /\ variant \in vs
    /\ mode = "TREE"
    /\ targetPhoto = 0
    /\ handDetected = FALSE
    /\ handRotation = [x |-> 0, y |-> 0]
    /\ gesture = IF variant = "main" THEN "loading" ELSE "NONE"
    /\ targetMix = 0
    /\ lastVideoTime = 0 - 1
    /\ videoTime = 0
    /\ loop = "notStarted"
    /\ items = IF variant \in ScriptVariants
               THEN [i \in 1..(NParticles + 1) |-> IF i <= NParticles THEN "PARTICLE" ELSE "PHOTO"]
               ELSE <<>>
    /\ processed = 0
    /\ lastResults = NoHand
    /\ lastLabel = "NOFRAME"
    /\ before1 = [mode |-> "TREE", mix |-> 0]
    /\ before2 = [mode |-> "TREE", mix |-> 0]
    /\ first = [res |-> NoHand, label |-> "NOFRAME"]
    /\ oonn = <<>>
    /\ scope = sc
    /\ handLandmarker = "pending"
    /\ notices = 0
    /\ uMix = 0
    /\ uTime = 0
    /\ meshes = IF variant \in ScriptVariants
                THEN [i \in 1..(NParticles + 1) |-> NewMesh(TreeSpot(i), ScatterSpot(i))]
                ELSE IF variant = "main" THEN particleGeometry ELSE photos
    /\ frames = 0
    /\ handState = [visible |-> FALSE, pinching |-> FALSE, over |-> 0]
    /\ grabbedPhoto = 0

Init == InitOf("detection", Variants)

Next ==
    \/ createHandLandmarker \/ initMediaPipe
    \/ loadeddata \/ renderLoop \/ predictWebcam \/ VideoFrame \/ addPhoto

Spec == Init /\ [][Next]_vars

\* The detection loop beside the display loop.
InitDisplay == InitOf("display", {"current", "main"})

NextDisplay ==
    \/ createHandLandmarker \/ initMediaPipe
    \/ loadeddata \/ renderLoop \/ predictWebcam \/ VideoFrame \/ addPhoto
    \/ animate \/ animateMain

SpecDisplay == InitDisplay /\ [][NextDisplay]_vars

\* main.js once the landmark model was created and the first video frame
\* showed an open hand (targetMix 1), before any display frame has moved uMix.
InitOpened(sc) ==
    /\ variant = "main"
    /\ mode = "TREE"
    /\ targetPhoto = 0
    /\ handDetected = FALSE
    /\ handRotation = [x |-> 0, y |-> 0]
    /\ gesture = "open"
    /\ targetMix = 100
    /\ lastVideoTime = 0
    /\ videoTime = 0
    /\ loop = "scheduled"
    /\ items = <<>>
    /\ processed = 0
    /\ lastResults = NoHand
    /\ lastLabel = "NOFRAME"
    /\ before1 = [mode |-> "TREE", mix |-> 0]
    /\ before2 = [mode |-> "TREE", mix |-> 0]
    /\ first = [res |-> NoHand, label |-> "NOFRAME"]
    /\ oonn = <<>>
    /\ scope = sc
    /\ handLandmarker = "created"
    /\ notices = 0
    /\ uMix = 0
    /\ uTime = 0
    /\ meshes = particleGeometry
    /\ frames = 0
    /\ handState = [visible |-> FALSE, pinching |-> FALSE, over |-> 0]
    /\ grabbedPhoto = 0

\* The easing of main.js on its own: from there only display frames run.
InitEase == InitOpened("ease")

NextEase == animateMain

SpecEase == InitEase /\ [][NextEase]_vars

\* The idle decay of main.js on its own: from there the camera sees no hand.
\* requestAnimationFrame keeps calling predictWebcam back and the camera keeps
\* delivering frames.
InitIdle == InitOpened("idle")

NextIdle == predictWebcam \/ VideoFrame

SpecIdle ==
    InitIdle /\ [][NextIdle]_vars /\ WF_vars(predictWebcam) /\ WF_vars(VideoFrame)

\* The display loop of script.js with frames of at most half a second:
\* requestAnimationFrame keeps calling animate back.
InitScale == InitOf("scale", {"current"})

NextScale ==
    \/ initMediaPipe \/ loadeddata \/ renderLoop \/ VideoFrame \/ addPhoto \/ animate

SpecScale == InitScale /\ [][NextScale]_vars /\ WF_vars(animate)

\* The photo wall.
InitWall == InitOf("wall", WallVariants)

NextWall == onResults \/ mousemove \/ mousedown \/ mouseup \/ animateWall

SpecWall == InitWall /\ [][NextWall]_vars

TypeOK ==
    /\ variant \in Variants
    /\ mode \in {"TREE", "SCATTER", "FOCUS"}
    /\ targetPhoto \in 0..MaxItems
    /\ handDetected \in BOOLEAN
    /\ gesture \in {"NONE", "PINCH", "FIST", "OPEN", "loading", "closed", "open", "none"}
    /\ targetMix \in 0..100
    /\ loop \in {"notStarted", "scheduled", "dead"}
    /\ lastVideoTime \in (0 - 1)..MaxTime
    /\ videoTime \in 0..MaxTime

\* ----------------------------------------------------------------- claims
\* A frame has been processed to its end (nothing threw).
Handled == processed > 0 /\ lastLabel # "THROW"

\* C1: whenever handleGestures handles a frame whose hand is classified NONE
\* while the mode is SCATTER or FOCUS, the mode is TREE after that frame.
C1_AutoRecovery ==
    (variant \in ScriptVariants /\ Handled /\ lastLabel = "NONE"
        /\ before1.mode \in {"SCATTER", "FOCUS"})
    => mode = "TREE"

\* C2: after a processed frame without a hand the mode is TREE, whatever it
\* was before.
C2_NoHandForcesTree ==
    (variant \in ScriptVariants /\ Handled /\ lastLabel = "NOHAND") => mode = "TREE"

\* C3: from TREE, the frames OPEN, OPEN, NONE, NONE leave the modes SCATTER,
\* SCATTER, TREE, TREE in handleGestures (script.js 408-469); the property
\* is stated for every prefix of that run of frames.
C3_OpenOpenNoneNone ==
    variant = "current" =>
        \A k \in 1..Len(oonn) : oonn[k] = <<"SCATTER", "SCATTER", "TREE", "TREE">>[k]

C3_Witness == variant = "current" /\ Len(oonn) = 4 /\ mode = "TREE"

\* C4: whatever the mode was, a frame classified PINCH leaves FOCUS, one
\* classified OPEN leaves SCATTER, one classified FIST leaves TREE.
C4_GestureSetsMode ==
    (variant \in ScriptVariants /\ Handled) =>
        /\ lastLabel = "PINCH" => mode = "FOCUS"
        /\ lastLabel = "OPEN" => mode = "SCATTER"
        /\ lastLabel = "FIST" => mode = "TREE"

C4_Witness ==
    /\ variant = "current" /\ Handled
    /\ lastLabel = "OPEN" /\ before1.mode = "FOCUS" /\ mode = "SCATTER"

\* The hand of the last processed frame, when it had one.
HasHand == processed > 0 /\ Len(lastResults) > 0

LastHand == lastResults[1]

\* All 21 landmarks present, every coordinate a number.
WellFormed(h) ==
    /\ Len(h) = 21
    /\ \A i \in 1..21 : ~IsNaN(h[i].x) /\ ~IsNaN(h[i].y) /\ ~IsNaN(h[i].z)

\* The claims' own terms, written out on the coordinates: squared x,y
\* distance of thumb tip and index tip, and the number of fingers whose
\* tip is more than 1.5 times as far from the wrist as its knuckle (3D).
ThumbIndex2(h) == (h[5].x - h[9].x) * (h[5].x - h[9].x) + (h[5].y - h[9].y) * (h[5].y - h[9].y)

Far2(p, q) == (p.x - q.x) * (p.x - q.x) + (p.y - q.y) * (p.y - q.y) + (p.z - q.z) * (p.z - q.z)

RaisedFingers(h) ==
    Cardinality({ t \in {9, 13, 17, 21} : 4 * Far2(h[t], h[1]) > 9 * Far2(h[t - 3], h[1]) })

ByRaisedFingers(h) ==
    IF RaisedFingers(h) >= 3 THEN "OPEN"
    ELSE IF RaisedFingers(h) <= 1 THEN "FIST"
    ELSE "NONE"

\* C5 (as stated): in every front end a hand whose thumb tip is less than
\* 0.05 from its index tip is classified PINCH.
C5_PinchAlwaysWins ==
    (Handled /\ HasHand /\ WellFormed(LastHand) /\ ThumbIndex2(LastHand) < 25)
    => Canon(lastLabel) = "PINCH"

\* C5 (amended): in the three handleGestures of script.js a well-formed hand
\* whose thumb tip is less than 0.05 from its index tip is labelled PINCH,
\* whatever its other fingers do.
C5_PinchWinsInScript ==
    (variant \in ScriptVariants /\ Handled /\ HasHand /\ WellFormed(LastHand)
        /\ ThumbIndex2(LastHand) < 25)
    => (lastLabel = "PINCH" /\ gesture = "PINCH")

C5_Witness ==
    /\ variant = "current" /\ Handled /\ HasHand /\ WellFormed(LastHand)
    /\ ThumbIndex2(LastHand) < 25 /\ RaisedFingers(LastHand) = 4
    /\ LastHand[21] = TipFar
    /\ gesture = "PINCH"

\* C6 (as stated): in every front end a non-pinching hand is classified by
\* its number of extended fingers: three or more OPEN, at most one CLOSED,
\* two NONE.
C6_ExtensionDecides ==
    (Handled /\ HasHand /\ WellFormed(LastHand) /\ ThumbIndex2(LastHand) >= 25)
    => Canon(lastLabel) = ByRaisedFingers(LastHand)

\* C6 (amended): main.js detectGesture classifies a well-formed hand by its
\* number of extended fingers: three or more open, at most one closed, two
\* none.
C6_ExtensionDecidesInMain ==
    (variant = "main" /\ Handled /\ HasHand /\ WellFormed(LastHand))
    => (Canon(lastLabel) = ByRaisedFingers(LastHand) /\ gesture = lastLabel)

C6_Witness ==
    /\ variant = "main" /\ Handled /\ HasHand /\ WellFormed(LastHand)
    /\ RaisedFingers(LastHand) = 3 /\ gesture = "open" /\ targetMix = 100

\* C7: a hand with missing landmarks or NaN coordinates is treated as
\* absent: the frame is classified NONE, nothing throws.
Degenerate(h) == ~WellFormed(h)

C7_DegenerateIsNone ==
    (HasHand /\ Degenerate(LastHand)) => Canon(lastLabel) = "NONE"

\* C8 (amended): the label depends on the landmarks alone: a frame with the
\* landmarks of the first processed frame gets the label of that frame,
\* whatever the state it is processed in.
C8_SameLandmarksSameLabel ==
    (processed >= 2 /\ HasHand /\ lastResults = first.res) => lastLabel = first.label

C8_Witness ==
    /\ variant = "current" /\ processed >= 2 /\ Handled /\ HasHand
    /\ lastResults = first.res /\ before1.mode = "SCATTER" /\ lastLabel = "NONE"

\* C8 (as stated): classification is deterministic and the step that
\* classifies a hand writes no state: no mode, no rotation, no focus target.
C8_PureClassifier ==
    [][ /\ C8_SameLandmarksSameLabel'
        /\ (variant \in ScriptVariants /\ processed' > processed /\ Len(lastResults') > 0)
            => (mode' = mode /\ handRotation' = handRotation /\ targetPhoto' = targetPhoto)
      ]_vars

\* What the last frame alone leaves when processed in the state before the
\* frame that preceded it.
ModeAlone ==
    handleGestures(variant, [CurSTATE EXCEPT !.mode = before2.mode],
                   lastResults, items, targetPhoto).state.mode

MixAlone == predictResults([CurSTATE EXCEPT !.targetMix = before2.mix], lastResults).state.targetMix

SameAsAlone == IF variant = "main" THEN targetMix = MixAlone ELSE mode = ModeAlone

\* C9 (as stated): a frame x followed by a frame g leaves the mode (the
\* target blend) that g alone leaves, for every x and g.
C9_GlitchRecorrected == (processed >= 2 /\ Handled) => SameAsAlone

\* C9 (amended): that holds in handleGestures of script.js 408-469 for
\* every g, and in every front end when g is PINCH, OPEN or FIST / closed.
C9_DecisiveRecorrects ==
    (processed >= 2 /\ Handled
        /\ (variant = "current" \/ Canon(lastLabel) \in {"PINCH", "OPEN", "FIST"}))
    => SameAsAlone

C9_Witness ==
    /\ variant = "current" /\ processed >= 2 /\ Handled
    /\ before2.mode = "FOCUS" /\ before1.mode = "SCATTER"
    /\ lastLabel = "NONE" /\ mode = "TREE"

\* C10: the detection loop never stops: every tick requests the next one.
C10_LoopNeverStops == processed > 0 => loop = "scheduled"

\* ------------------------------------------------------ the display loop
Minus(p, q) == V(p.x - q.x, p.y - q.y, p.z - q.z)

Dot(p, q) == p.x * q.x + p.y * q.y + p.z * q.z

Cross(p, q) == V(p.y * q.z - p.z * q.y, p.z * q.x - p.x * q.z, p.x * q.y - p.y * q.x)

\* p lies on the segment from a to b.
OnSegment(p, a, b) ==
    /\ Cross(Minus(p, a), Minus(b, a)) = V(0, 0, 0)
    /\ Dot(Minus(p, a), Minus(b, a)) >= 0
    /\ Dot(Minus(p, a), Minus(b, a)) <= Dot(Minus(b, a), Minus(b, a))

\* C11: after any sequence of display frames and mode changes, the current
\* position of every particle lies on the segment between its rest position
\* and its alternate position.
C11_OnSegment ==
    \A i \in 1..Len(meshes) :
        OnSegment(meshes[i].position, meshes[i].treePos, meshes[i].scatterPos)

\* C12: the blend scalar uMix stays in [0, 1] in every reachable state, for
\* every interleaving of detection frames and display frames.
C12_BlendInRange == uMix >= 0 /\ uMix <= 100 * MixUnit

\* The blend is on its way down after an open hand, display frames and a fist.
C12_Witness == variant = "main" /\ frames >= 2 /\ uMix > 0 /\ targetMix = 0 /\ loop = "scheduled"

\* C13: while the target blend is held at 1 the blend never decreases from one
\* display frame to the next and never exceeds 1, and starting from 0 it is
\* within 0.01 of 1 after at most 90 display frames.
C13_EaseUp ==
    [][(targetMix = 100 /\ targetMix' = 100)
         => /\ uMix' >= uMix
            /\ uMix' <= 100 * MixUnit
            /\ (frames' >= 90 => 100 * MixUnit - uMix' <= MixUnit)]_vars

\* Ninety display frames after the target went to 1 the blend is within 0.01
\* of it and still below it.
C13_Witness ==
    /\ scope = "ease" /\ frames = 90 /\ targetMix = 100
    /\ uMix >= 99 * MixUnit /\ uMix < 100 * MixUnit

\* The positions the vertex shader may give particle i in this state.
Rendered(i) ==
    { vertexShader(meshes[i].treePos, meshes[i].scatterPos, uMix, uTime, n) : n \in Noises }

\* C14: at a blend of exactly 0 the interpolated position of a particle equals
\* its rest position exactly, at every elapsed time: neither turbulence nor
\* spin displaces it.
C14_RestAtZero ==
    (variant = "main" /\ uMix = 0)
        => \A i \in 1..Len(meshes) : Rendered(i) = {meshes[i].treePos}

\* C14, amended: at a blend of exactly 0 turbulence adds nothing, and the
\* position is the rest position turned about the vertical axis by
\* uTime * 0.1: same height, and the rest position itself at uTime 0.
C14_RestSpunAtZero ==
    (variant = "main" /\ uMix = 0)
        => \A i \in 1..Len(meshes) :
              /\ Rendered(i) = {Spiral(meshes[i].treePos, uTime)}
              /\ \A r \in Rendered(i) : r.y = meshes[i].treePos.y
              /\ (uTime = 0 => Rendered(i) = {meshes[i].treePos})

\* Display frames have run at blend 0 and the spin has moved a particle.
C14_Witness ==
    /\ variant = "main" /\ uMix = 0 /\ uTime > 0
    /\ \E i \in 1..Len(meshes) : meshes[i].treePos \notin Rendered(i)

\* C15: the set of particles is fixed after startup: no operation (gesture
\* frames, display frames, mode changes, photo upload) adds an item to the
\* particle collection or removes one.
C15_PoolFixed == [][items' = items /\ Len(meshes') = Len(meshes)]_vars

\* C15, amended: gesture frames, display frames and mode changes leave the
\* collection as it is; a photo upload appends one PHOTO item and touches no
\* other; nothing is ever removed.
C15_OnlyUploadAppends ==
    [][\/ items' = items /\ Len(meshes') = Len(meshes)
       \/ /\ items' = Append(items, "PHOTO")
          /\ Len(meshes') = Len(items')
          /\ SubSeq(meshes', 1, Len(meshes)) = meshes
          /\ UNCHANGED <<STATEvars, lastVideoTime, frames>>]_vars

\* A photo was uploaded in a run with detection frames and display frames.
C15_Witness ==
    /\ Len(items) > NParticles + 1 /\ Len(meshes) = Len(items)
    /\ frames > 0 /\ lastVideoTime >= 0

\* C16: every display frame and every detection frame leaves each particle's
\* rest position, alternate position and kind as they were (and, in main.js,
\* its attributes altogether); only the current position and the scale of a
\* mesh may change.
C16_RestAndAlternateKept ==
    [][/\ Len(meshes') >= Len(meshes)
       /\ \A i \in 1..Len(meshes) :
            /\ meshes'[i].treePos = meshes[i].treePos
            /\ meshes'[i].scatterPos = meshes[i].scatterPos
            /\ (variant = "main" => meshes'[i] = meshes[i])
       /\ \A i \in 1..Len(items) : items'[i] = items[i]]_vars

\* Display frames have moved and scaled a mesh after a detection frame.
C16_Witness ==
    /\ variant \in ScriptVariants /\ frames > 0 /\ lastVideoTime >= 0
    /\ \E i \in 1..Len(meshes) :
         meshes[i].position # meshes[i].treePos /\ meshes[i].scale # Unit

\* C17: selecting the focus target is one-shot: while the gesture stays PINCH
\* on consecutive frames, the focus target stays the same photo.
C17_FocusOneShot ==
    [][(mode = "FOCUS" /\ lastLabel = "PINCH" /\ lastLabel' = "PINCH"
          /\ processed' = processed + 1)
         => targetPhoto' = targetPhoto]_vars

\* C18: if the landmark model fails to initialise, the failure is reported to
\* the user exactly once, no detection is attempted, and the mode and the
\* target blend stay at their initial tree value.
C18_FailureReportedOnce ==
    handLandmarker = "failed"
        => /\ notices = 1
           /\ loop = "notStarted" /\ lastVideoTime = 0 - 1
           /\ mode = "TREE" /\ targetMix = 0

\* -------------------------------------------------------- the photo wall
\* C19: when no hand is detected, pressing the pointer while over a photo
\* makes the next display frame grab that photo, and releasing the pointer
\* makes the next display frame release it.
C19_PointerGrabsAndReleases ==
    [][(variant \in WallVariants /\ frames' = frames + 1 /\ ~handState.visible)
         => /\ (handState.pinching /\ handState.over > 0 /\ grabbedPhoto = 0)
                  => grabbedPhoto' = handState.over
            /\ ~handState.pinching => grabbedPhoto' = 0]_vars

\* ------------------------------------------------- the two loops together
\* C20: under any interleaving of display ticks and detection ticks, only the
\* detection callback writes the mode, the target blend, the smoothed rotation
\* and the last video timestamp, only the display callback writes the blend
\* scalar and the positions, and a display tick works with the mode and target
\* blend the last detection tick left, which it leaves in place for the next
\* display tick.
C20_SingleWriter ==
    [][/\ <<mode, targetMix, handRotation, lastVideoTime>>'
              # <<mode, targetMix, handRotation, lastVideoTime>>
            => /\ lastVideoTime # videoTime /\ lastVideoTime' = videoTime
               /\ UNCHANGED <<frames, uMix, uTime, meshes>>
       /\ (uMix' # uMix \/ uTime' # uTime) => frames' = frames + 1
       /\ frames' # frames
            => /\ UNCHANGED <<STATEvars, lastVideoTime, loop>>
               /\ variant = "main" => uMix' = Ease(uMix, targetMix)
               /\ variant \in ScriptVariants
                    => \E dq \in Deltas : meshes' = update(meshes, dq, mode, targetPhoto)]_vars

\* Display ticks and two processed video frames have run, the blend on its
\* way up to the target the detection left.
C20_Witness ==
    /\ variant = "main" /\ lastVideoTime >= 1 /\ frames = MaxFrames
    /\ uMix > 0 /\ uMix < targetMix * MixUnit

\* ------------------------------------------------ the detection loop, again
\* C21: a detection tick whose video timestamp equals the last processed
\* timestamp runs no detection and leaves the mode, gesture, target blend,
\* smoothed rotation and focus target unchanged; a tick with a different
\* timestamp records that timestamp and processes the frame exactly once.
C21_DuplicateSkipped ==
    [][/\ videoTime = lastVideoTime
            => UNCHANGED <<STATEvars, lastVideoTime, processed, lastResults>>
       /\ (STATEvars' # STATEvars \/ processed' # processed)
            => /\ lastVideoTime # videoTime
               /\ lastVideoTime' = videoTime
               /\ processed' = processed + 1
       /\ processed' <= videoTime' + 1]_vars

\* Three frames were processed, each once, and the next tick finds the
\* timestamp it has already recorded.
C21_Witness ==
    /\ processed = 3 /\ lastVideoTime = 2 /\ videoTime = lastVideoTime
    /\ loop = "scheduled"

\* C22: in main.js each processed frame with no hand lowers the target blend
\* by the fixed step 0.02 and never below 0 (no snap to 0 from above 0.02),
\* and under consecutive no-hand frames the target blend eventually reaches 0
\* and stays there.
C22_IdleDecay ==
    /\ [][(variant = "main" /\ processed' = processed + 1 /\ lastLabel' = "NOHAND")
            => /\ targetMix' = (IF targetMix >= 2 THEN targetMix - 2 ELSE 0)
               /\ targetMix' >= 0
               /\ (targetMix > 2 => targetMix' > 0)]_vars
    /\ <>[](targetMix = 0)

\* The fiftieth frame without a hand has brought the target blend from 1 to 0.
C22_Witness ==
    scope = "idle" /\ processed = 50 /\ before1.mix = 2 /\ targetMix = 0

\* One component of the smoothed rotation went from old to new on a frame
\* whose target was t: by a tenth of the gap, not onto the target, not past
\* it and not away from it.
SmoothedTo(old, new, t) ==
    /\ ~IsNaN(old) /\ ~IsNaN(t) /\ ~IsNaN(new)
    /\ new = old + ((t - old) \div 10)
    /\ Abs(t - old) > 10 => new # t
    /\ (old <= t => new <= t) /\ (old >= t => new >= t)
    /\ Abs(t - new) <= Abs(t - old)

\* C23: on every processed frame with a hand, each component of the smoothed
\* rotation becomes old + (target - old) * 0.1, with target
\* (palm.y - 0.5) * 1.5 for pitch and (palm.x - 0.5) * 2.5 for yaw; it is never
\* assigned the target directly, never overshoots the target, and its distance
\* to the target never increases.
C23_RotationSmoothed ==
    [][(variant \in ScriptVariants /\ processed' = processed + 1 /\ Len(lastResults') > 0)
         => /\ Defined(lastResults'[1], 9)
            /\ SmoothedTo(handRotation.x, handRotation'.x,
                          (Lm(lastResults'[1], 9).y - 50) * 15000000)
            /\ SmoothedTo(handRotation.y, handRotation'.y,
                          (Lm(lastResults'[1], 9).x - 50) * 25000000)]_vars


\* The item mesh was moved by one display frame of lerp factor f2 / 2 toward
\* the position pos and the scale sc (the scale only when it is more than
\* 0.01 away).
MovedToward(old, new, pos, sc, f2) ==
    /\ new.position = Vlerp(old.position, pos, f2)
    /\ new.scale = IF Abs(old.scale - sc) * 100 > Unit
                   THEN LerpN(old.scale, sc, f2) ELSE old.scale
    /\ new.treePos = old.treePos /\ new.scatterPos = old.scatterPos

\* C24: in FOCUS mode, on every display frame exactly one item, the
\* designated focus target, is moved toward the presentation slot (0, 2, 35)
\* with its scale eased toward 4.0; every other item is moved toward its own
\* scatter position with target scale 1.
C24_FocusTargets ==
    [][(variant \in ScriptVariants /\ mode = "FOCUS" /\ frames' = frames + 1)
         => /\ Cardinality({i \in 1..Len(meshes) : i = targetPhoto}) = 1
            /\ Len(meshes') = Len(meshes)
            /\ \E f2 \in Deltas : \A i \in 1..Len(meshes) :
                 IF i = targetPhoto
                 THEN MovedToward(meshes[i], meshes'[i], V(0, 2 * Unit, 35 * Unit), 4 * Unit, f2)
                 ELSE MovedToward(meshes[i], meshes'[i], meshes[i].scatterPos, Unit, f2)]_vars

\* Two display frames in FOCUS mode: the focus target has grown and left its
\* tree position, another item has reached its scatter position at scale 1.
C24_Witness ==
    /\ variant = "current" /\ mode = "FOCUS" /\ frames = 2
    /\ targetPhoto \in 1..Len(meshes)
    /\ meshes[targetPhoto].scale > Unit
    /\ meshes[targetPhoto].position # meshes[targetPhoto].treePos
    /\ \E j \in 1..Len(meshes) : /\ j # targetPhoto
                                 /\ meshes[j].position = meshes[j].scatterPos
                                 /\ meshes[j].scale = Unit


\* C25: in handleGestures (the definition at 408-469 and the first
\* definition) the mode after a frame processed to its end depends only on
\* that frame and not on the previous mode: PINCH gives FOCUS, OPEN gives
\* SCATTER, and FIST, NONE and no-hand all give TREE.
C25_ModeMemoryless ==
    [][(variant \in {"current", "first"} /\ processed' = processed + 1 /\ lastLabel' # "THROW")
         => mode' = CASE lastLabel' = "PINCH" -> "FOCUS"
                      [] lastLabel' = "OPEN" -> "SCATTER"
                      [] OTHER -> "TREE"]_vars


\* C26: in main.js a hand classified 'none' (exactly two fingers extended,
\* when it has landmarks at all) leaves the target blend unchanged, so a target blend of 1 persists while
\* the hand is undecided; only an open hand, a closed hand and a frame
\* without a hand change the target blend.
C26_NoneKeepsBlend ==
    [][variant = "main"
         => /\ (processed' = processed + 1 /\ lastLabel' = "none")
                 => /\ Len(lastResults') > 0
                    /\ Len(lastResults'[1]) > 0 => extendedCount(lastResults'[1]) = 2
                    /\ targetMix' = targetMix
            /\ targetMix' # targetMix
                 => /\ processed' = processed + 1
                    /\ lastLabel' \in {"open", "closed", "NOHAND"}]_vars

\* An open hand raised the target blend to 1 and an undecided hand followed:
\* the target blend is still 1.
C26_Witness ==
    /\ variant = "main" /\ processed >= 2 /\ lastLabel = "none"
    /\ before2.mix = 0 /\ before1.mix = 100 /\ targetMix = 100


\* ---------------------------------------------------- the photo wall, again
\* C27: a grabbed photo is released once pinching has ended or the hand is no
\* longer detected: after every display frame run while the hand is not
\* visible or not pinching nothing is grabbed, so the tree rotation cannot
\* stay paused after the hand has left the frame.
C27_ReleasedWhenHandGone ==
    [][(variant \in WallVariants /\ frames' = frames + 1
          /\ (~handState.visible \/ ~handState.pinching))
         => grabbedPhoto' = 0]_vars


\* C28: at most one photo is grabbed at a time; a grabbed photo is never
\* replaced by another photo, even when the pointer ray comes to intersect a
\* different photo while pinching stays true; a photo is grabbed only on a
\* display frame where pinching is true, nothing is grabbed and the ray
\* intersects that photo.
C28_GrabExclusive ==
    [][(variant \in WallVariants)
         => /\ (grabbedPhoto # 0 /\ grabbedPhoto' # 0) => grabbedPhoto' = grabbedPhoto
            /\ (grabbedPhoto' # 0 /\ grabbedPhoto' # grabbedPhoto)
                 => /\ frames' = frames + 1
                    /\ handState.visible /\ handState.pinching
                    /\ grabbedPhoto = 0
                    /\ <<grabbedPhoto'>> = intersectObjects(handState)
            /\ \A i \in 1..Len(meshes') :
                 meshes'[i].scale > Unit => grabbedPhoto' = i]_vars

\* Photo 1 was grabbed on a display frame, the hand is still pinching and the
\* ray now intersects photo 2, with a display frame still to come.
C28_Witness ==
    /\ variant \in WallVariants /\ frames >= 1 /\ frames < MaxFrames
    /\ grabbedPhoto = 1 /\ meshes[1].position = HoldSpot
    /\ handState.visible /\ handState.pinching /\ handState.over = 2


\* ------------------------------------------------------ the scale of items
\* Every item's scale is within 0.01 of 1.
ScalesAtRest == \A i \in 1..Len(meshes) : Abs(meshes[i].scale - Unit) * 100 <= Unit

\* C29: for display frames with 0 < 2 * delta <= 1, every item's scale lies
\* in [1, 4] in every reachable state, and once the mode has left FOCUS for
\* good the scale of the former focus target (of every item) eventually
\* returns to within 0.01 of 1 and stays there.
C29_ScaleSettles ==
    /\ [](\A i \in 1..Len(meshes) : meshes[i].scale >= Unit /\ meshes[i].scale <= 4 * Unit)
    /\ (<>[](mode # "FOCUS") => <>[]ScalesAtRest)

\* The mode has left FOCUS and the former focus target, still enlarged, is on
\* its way back to scale 1.
C29_Witness ==
    /\ scope = "scale" /\ mode # "FOCUS" /\ targetPhoto \in 1..Len(meshes)
    /\ meshes[targetPhoto].scale > Unit /\ meshes[targetPhoto].scale < 2 * Unit


\* --------------------------------------------------------- the focus target
\* C30: in every reachable state with mode FOCUS the focus target is set and
\* is a PHOTO item of the collection, never a PARTICLE.
C30_FocusOnPhoto ==
    (variant \in ScriptVariants /\ mode = "FOCUS")
      => /\ targetPhoto \in 1..Len(items)
         /\ items[targetPhoto] = "PHOTO"
         /\ items[targetPhoto] # "PARTICLE"

\* A pinch put the mode to FOCUS with particles in the collection and an
\* uploaded photo beside the default photo; the uploaded one was drawn.
C30_Witness ==
    /\ variant = "current" /\ mode = "FOCUS" /\ lastLabel = "PINCH"
    /\ \E i \in 1..Len(items) : items[i] = "PARTICLE"
    /\ Cardinality({ i \in 1..Len(items) : items[i] = "PHOTO" }) = 2
    /\ targetPhoto = Len(items)

============================================================================
